---- MODULE Spec2Model ----
(***************************************************************************)
(* Model of fwf-rs (src/src/reader.rs): the fixed-width tokenizer          *)
(* FwfRecord::try_new, the field accessor FwfRecord::get, the file reader  *)
(* FwfFileReader (header / records) and the record iterator FwfRecordIter. *)
(*                                                                         *)
(* A line of text is a sequence of characters.  A String is indexed by     *)
(* BYTES in the source (line.len(), line[start..], Range<usize>), while    *)
(* char_indices().nth(w) counts CHARACTERS, so every character carries its *)
(* UTF-8 length and every index below is a byte index, as in the source.   *)
(***************************************************************************)
EXTENDS Integers, Sequences, FiniteSets, TLC

\* ---------------------------------------------------------------- bounds
MaxLen == 3            \* characters per line handed to try_new
MaxFields == 2         \* entries of a widths list
MaxWidth == 2          \* largest declared width
MaxSep == 2            \* largest separator length
MaxLines == 2          \* lines of the file behind FwfFileReader
MaxCalls == 3          \* calls of FwfRecordIter::next on one iterator

\* ------------------------------------------------------- text and bytes
\* "a" stands for a one-byte character, "E" for a two-byte one (e.g. U+00E9).
Alphabet == {"a", "E"}

Utf8Len(c) == IF c = "a" THEN 1 ELSE 2

LinesUpTo(n) == UNION {[1..k -> Alphabet] : k \in 0..n}

\* Widths are positive character counts.
WidthLists == UNION {[1..k -> 1..MaxWidth] : k \in 0..MaxFields}

\* String::len: the length in bytes.
RECURSIVE StrLen(_)
StrLen(s) == IF s = <<>> THEN 0 ELSE Utf8Len(Head(s)) + StrLen(Tail(s))

\* str::char_indices: the byte offset of the k-th character (k from 1).
CharOffset(s, k) == StrLen(SubSeq(s, 1, k - 1))

\* str::is_char_boundary.
IsCharBoundary(s, i) ==
    \/ i = 0
    \/ i = StrLen(s)
    \/ \E k \in 1..Len(s) : CharOffset(s, k) = i

\* The characters of s whose bytes lie in [a, b), for a and b on boundaries.
Slice(s, a, b) ==
    LET ks == {k \in 1..Len(s) : a <= CharOffset(s, k) /\ CharOffset(s, k) < b}
    IN  IF ks = {} THEN <<>>
        ELSE SubSeq(s, CHOOSE k \in ks : \A j \in ks : k <= j,
                       CHOOSE k \in ks : \A j \in ks : j <= k)

\* ------------------------------------------------------------- results
\* One shape for every value an operation hands back:
\*   tag   "Ok" (a FwfRecord: line, ranges), "Err" (a ReaderError: kind, pos,
\*         width), "Panic" (the call unwound: kind), "None", "OkNone",
\*         "OkIter", "Unit"
Value(tag, kind, pos, width, ln, ranges) ==
    [tag |-> tag, kind |-> kind, pos |-> pos, width |-> width,
     line |-> ln, ranges |-> ranges]

OkRecord(ln, ranges) == Value("Ok", "None", 0, 0, ln, ranges)
EmptyLine == Value("Err", "EmptyLine", 0, 0, <<>>, <<>>)
WidthMismatch(p, w) == Value("Err", "WidthMismatch", p, w, <<>>, <<>>)
Io == Value("Err", "Io", 0, 0, <<>>, <<>>)
Panic(kind) == Value("Panic", kind, 0, 0, <<>>, <<>>)
Plain(tag) == Value(tag, "None", 0, 0, <<>>, <<>>)

Rng(s, e) == [start |-> s, end |-> e]

\* --------------------------------------------------- FwfRecord::try_new
\* rem.cmp(&w) with rem = line.len() - start.  When start > line.len() and
\* overflow checks are off the subtraction wraps to 2^64 - (start - len),
\* which is larger than every width of the model.
RemCmp(ln, start, w) ==
    IF start > StrLen(ln) THEN "Greater"
    ELSE IF StrLen(ln) - start < w THEN "Less"
    ELSE IF StrLen(ln) - start = w THEN "Equal"
    ELSE "Greater"

\* line[start..].char_indices().nth(w): the byte index, from the start of
\* the line, of the character w places after start; -1 when there is none.
NthCharIndex(ln, start, w) ==
    LET ks == {k \in 1..Len(ln) : CharOffset(ln, k) >= start}
        first == Len(ln) - Cardinality(ks) + 1
    IN  IF Cardinality(ks) > w THEN CharOffset(ln, first + w) ELSE -1

\* The closure of widths.iter().map(..) folded by collect::<Result<..>>:
\* k is the field being evaluated, start the captured cursor.
RECURSIVE MapWidths(_, _, _, _, _, _, _, _)
MapWidths(ln, ws, sep, flex, checks, k, start, ranges) ==
    IF k > Len(ws) THEN OkRecord(ln, ranges)
    ELSE IF start > StrLen(ln) /\ checks THEN Panic("SubtractOverflow")
    ELSE LET w == ws[k]
             ord == RemCmp(ln, start, w)
         IN  IF ord = "Less" THEN
                 IF flex
                 THEN MapWidths(ln, ws, sep, flex, checks, k + 1, StrLen(ln),
                                Append(ranges, Rng(start, StrLen(ln))))
                 ELSE WidthMismatch(start, w)
             ELSE IF ord = "Equal" THEN
                 MapWidths(ln, ws, sep, flex, checks, k + 1, StrLen(ln),
                           Append(ranges, Rng(start, StrLen(ln))))
             ELSE IF start > StrLen(ln) \/ ~IsCharBoundary(ln, start)
                  THEN Panic("SliceIndex")
                  ELSE LET end == NthCharIndex(ln, start, w)
                       IN  IF end = -1 THEN WidthMismatch(start, w)
                           ELSE MapWidths(ln, ws, sep, flex, checks, k + 1,
                                          end + sep,
                                          Append(ranges, Rng(start, end)))

\* try_new with the emptiness test made only when there are widths to fold.
TryNew_EmptyCheckedPerField(ln, ws, sep, flex, checks) ==
    IF ln = <<>> /\ ws # <<>> THEN EmptyLine
    ELSE MapWidths(ln, ws, sep, flex, checks, 1, 0, <<>>)

\* try_new rejecting, in strict mode, a line that goes on after the last field.
TryNew_RejectTrailing(ln, ws, sep, flex, checks) ==
    LET r == IF ln = <<>> THEN EmptyLine
             ELSE MapWidths(ln, ws, sep, flex, checks, 1, 0, <<>>)
    IN  IF /\ r.tag = "Ok" /\ ~flex /\ ws # <<>>
           /\ r.ranges[Len(ws)].end < StrLen(ln)
        THEN WidthMismatch(r.ranges[Len(ws)].end, ws[Len(ws)])
        ELSE r

TryNew(ln, ws, sep, flex, checks) ==
    IF ln = <<>> THEN EmptyLine
    ELSE MapWidths(ln, ws, sep, flex, checks, 1, 0, <<>>)

\* ------------------------------------------------------- FwfRecord::get
\* str::get(range): None unless the range is ordered, inside the line and on
\* character boundaries.
StrGet(ln, r) ==
    IF r.start <= r.end /\ r.end <= StrLen(ln)
       /\ IsCharBoundary(ln, r.start) /\ IsCharBoundary(ln, r.end)
    THEN [some |-> TRUE, text |-> Slice(ln, r.start, r.end)]
    ELSE [some |-> FALSE, text |-> <<>>]

\* index counts from 0, as in the source.
Get(rec, i) ==
    IF i < Len(rec.ranges)
    THEN StrGet(rec.line, rec.ranges[i + 1])
    ELSE [some |-> FALSE, text |-> <<>>]

\* ---------------------------------------------------------------- state
VARIABLES
    line,             \* try_new's argument `line`
    widths,           \* try_new's argument `widths`; FwfFileReader.widths
    sep_len,          \* try_new's argument `sep_len`
    flexible_widths,  \* try_new's argument `flexible_widths`
    overflow_checks,  \* the build: TRUE when arithmetic overflow panics
    pc,               \* "args": try_new not called yet; "built": it returned
    result,           \* what try_new handed back
    index,            \* the argument of the last FwfRecord::get, -1 if none
    got,              \* what the last FwfRecord::get handed back
    file,             \* the file FwfFileReader.file names
    separator_length, \* FwfFileReader.separator_length
    flexible_width,   \* FwfFileReader.flexible_width
    has_header,       \* FwfFileReader.has_header
    iter,             \* the FwfRecordIter handed out by records()
    it_header,        \* has_header when records() built that iterator
    calls,            \* calls of next() on that iterator so far
    op,               \* the last call: "new", "configure" (a with_* setter),
                      \* "header", "records" or "next"
    ret               \* what that operation handed back

vars == <<line, widths, sep_len, flexible_widths, overflow_checks, pc, result,
          index, got, file, separator_length, flexible_width, has_header,
          iter, it_header, calls, op, ret>>

recordVars == <<line, sep_len, flexible_widths, pc, result, index, got>>
readerVars == <<file, separator_length, flexible_width, has_header, iter,
                it_header, calls, op, ret>>

NoIter == [live |-> FALSE, reader |-> <<>>, widths |-> <<>>,
           separator_length |-> 0, flexible_width |-> FALSE]
NoGot == [some |-> FALSE, text |-> <<>>]

\* A line of the file as Lines<BufReader<File>> yields it: Ok(text), or an
\* io::Error (ok = FALSE).
FileLine(text) == [ok |-> TRUE, text |-> text]
IoFailLine == [ok |-> FALSE, text |-> <<>>]
\* The texts a line of the file is drawn from: the empty line, a one-byte
\* line, and a line ending in a two-byte character.
FileTexts == {<<>>, <<"a">>, <<"a", "E">>}
FileLines == {FileLine(t) : t \in FileTexts} \cup {IoFailLine}
\* The widths lists a reader is built with.
ReaderWidths == {<<2>>, <<1, 1>>}
\* The file behind FwfFileReader.file: missing (File::open fails), or its
\* lines.
NoFile == [exists |-> FALSE, lines |-> <<>>]
Files == {[exists |-> TRUE, lines |-> ls] :
            ls \in UNION {[1..k -> FileLines] : k \in 0..MaxLines}}
         \cup {NoFile}

\* ------------------------------------------- specification of FwfRecord
InitRecord ==
    /\ line \in LinesUpTo(MaxLen)
    /\ widths \in WidthLists
    /\ sep_len \in 0..MaxSep
    /\ flexible_widths \in BOOLEAN
    /\ overflow_checks \in BOOLEAN
    /\ pc = "args"
    /\ result = Plain("Unit")
    /\ index = -1
    /\ got = NoGot
    /\ file = NoFile
    /\ separator_length = 1
    /\ flexible_width = TRUE
    /\ has_header = TRUE
    /\ iter = NoIter
    /\ it_header = FALSE
    /\ calls = 0
    /\ op = "none"
    /\ ret = Plain("Unit")

\* FwfRecord::try_new(line, &widths, sep_len, flexible_widths)
TryNewCall ==
    /\ pc = "args"
    /\ result' = TryNew(line, widths, sep_len, flexible_widths, overflow_checks)
    /\ pc' = "built"
    /\ UNCHANGED <<line, widths, sep_len, flexible_widths, overflow_checks,
                   index, got>>
    /\ UNCHANGED readerVars

\* record.get(i) on the record try_new returned.
GetCall ==
    /\ pc = "built"
    /\ result.tag = "Ok"
    /\ \E i \in 0..(MaxFields + 1) :
         /\ index' = i
         /\ got' = Get(result, i)
    /\ UNCHANGED <<line, widths, sep_len, flexible_widths, overflow_checks,
                   pc, result>>
    /\ UNCHANGED readerVars

NextRecord == TryNewCall \/ GetCall

SpecRecord == InitRecord /\ [][NextRecord]_vars

\* --------------------------------------- specification of FwfFileReader
\* FwfFileReader::new(file, widths)
Init ==
    /\ file \in Files
    /\ widths \in ReaderWidths
    /\ separator_length = 1
    /\ flexible_width = TRUE
    /\ has_header = TRUE
    /\ overflow_checks \in BOOLEAN
    /\ iter = NoIter
    /\ it_header = FALSE
    /\ calls = 0
    /\ op = "new"
    /\ ret = Plain("Unit")
    /\ line = <<>>
    /\ sep_len = 0
    /\ flexible_widths = FALSE
    /\ pc = "reader"
    /\ result = Plain("Unit")
    /\ index = -1
    /\ got = NoGot

\* A panic unwinds the thread: nothing is called after it.
Running == ret.tag # "Panic"

\* What one item of Lines<R> becomes: `result?` hands an io::Error back as
\* Err(Io), a line goes through try_new.
LineOutcome(l, ws, sep, flex) ==
    IF l.ok THEN TryNew(l.text, ws, sep, flex, overflow_checks) ELSE Io

WithSeparatorLength ==
    /\ Running
    /\ \E n \in 0..MaxSep : separator_length' = n
    /\ op' = "configure"
    /\ ret' = Plain("Unit")
    /\ UNCHANGED <<file, widths, flexible_width, has_header, iter, it_header,
                   calls, overflow_checks>>
    /\ UNCHANGED recordVars

WithFlexibleWidth ==
    /\ Running
    /\ \E b \in BOOLEAN : flexible_width' = b
    /\ op' = "configure"
    /\ ret' = Plain("Unit")
    /\ UNCHANGED <<file, widths, separator_length, has_header, iter, it_header,
                   calls, overflow_checks>>
    /\ UNCHANGED recordVars

WithHasHeader ==
    /\ Running
    /\ \E b \in BOOLEAN : has_header' = b
    /\ op' = "configure"
    /\ ret' = Plain("Unit")
    /\ UNCHANGED <<file, widths, separator_length, flexible_width, iter,
                   it_header, calls, overflow_checks>>
    /\ UNCHANGED recordVars

\* FwfFileReader::header
Header ==
    /\ Running
    /\ op' = "header"
    /\ ret' = IF ~has_header THEN Plain("OkNone")
              ELSE IF ~file.exists THEN Io
              ELSE IF file.lines = <<>> THEN EmptyLine
              ELSE LineOutcome(file.lines[1], widths, separator_length,
                               flexible_width)
    /\ UNCHANGED <<file, widths, separator_length, flexible_width, has_header,
                   iter, it_header, calls, overflow_checks>>
    /\ UNCHANGED recordVars

\* records() without the `if self.has_header { reader.next(); }` step.
Records_NoSkip ==
    /\ Running
    /\ op' = "records"
    /\ IF ~file.exists
       THEN /\ ret' = Io
            /\ UNCHANGED <<iter, it_header, calls>>
       ELSE /\ ret' = Plain("OkIter")
            /\ iter' = [live |-> TRUE,
                        reader |-> file.lines,
                        widths |-> widths,
                        separator_length |-> separator_length,
                        flexible_width |-> flexible_width]
            /\ it_header' = has_header
            /\ calls' = 0
    /\ UNCHANGED <<file, widths, separator_length, flexible_width, has_header,
                   overflow_checks>>
    /\ UNCHANGED recordVars

\* records() parsing the header line and propagating its error with `?`.
Records_HeaderChecked ==
    /\ Running
    /\ op' = "records"
    /\ IF ~file.exists
       THEN /\ ret' = Io
            /\ UNCHANGED <<iter, it_header, calls>>
       ELSE IF /\ has_header
               /\ file.lines # <<>>
               /\ LineOutcome(file.lines[1], widths, separator_length,
                              flexible_width).tag # "Ok"
       THEN /\ ret' = LineOutcome(file.lines[1], widths, separator_length,
                                  flexible_width)
            /\ UNCHANGED <<iter, it_header, calls>>
       ELSE /\ ret' = Plain("OkIter")
            /\ iter' = [live |-> TRUE,
                        reader |-> IF has_header /\ file.lines # <<>>
                                   THEN Tail(file.lines) ELSE file.lines,
                        widths |-> widths,
                        separator_length |-> separator_length,
                        flexible_width |-> flexible_width]
            /\ it_header' = has_header
            /\ calls' = 0
    /\ UNCHANGED <<file, widths, separator_length, flexible_width, has_header,
                   overflow_checks>>
    /\ UNCHANGED recordVars

\* FwfFileReader::records
Records ==
    /\ Running
    /\ op' = "records"
    /\ IF ~file.exists
       THEN /\ ret' = Io
            /\ UNCHANGED <<iter, it_header, calls>>
       ELSE /\ ret' = Plain("OkIter")
            /\ iter' = [live |-> TRUE,
                        reader |-> IF has_header /\ file.lines # <<>>
                                   THEN Tail(file.lines) ELSE file.lines,
                        widths |-> widths,
                        separator_length |-> separator_length,
                        flexible_width |-> flexible_width]
            /\ it_header' = has_header
            /\ calls' = 0
    /\ UNCHANGED <<file, widths, separator_length, flexible_width, has_header,
                   overflow_checks>>
    /\ UNCHANGED recordVars

\* next() that drops the rest of the source once a line fails.
IterNext_StopOnErr ==
    /\ Running
    /\ iter.live
    /\ calls < MaxCalls
    /\ op' = "next"
    /\ calls' = calls + 1
    /\ IF iter.reader = <<>>
       THEN /\ ret' = Plain("None")
            /\ UNCHANGED iter
       ELSE /\ ret' = LineOutcome(Head(iter.reader), iter.widths,
                                  iter.separator_length, iter.flexible_width)
            /\ iter' = [iter EXCEPT !.reader =
                          IF ret'.tag = "Err" THEN <<>> ELSE Tail(iter.reader)]
    /\ UNCHANGED <<file, widths, separator_length, flexible_width, has_header,
                   it_header, overflow_checks>>
    /\ UNCHANGED recordVars

\* <FwfRecordIter as Iterator>::next
IterNext ==
    /\ Running
    /\ iter.live
    /\ calls < MaxCalls
    /\ op' = "next"
    /\ calls' = calls + 1
    /\ IF iter.reader = <<>>
       THEN /\ ret' = Plain("None")
            /\ UNCHANGED iter
       ELSE /\ ret' = LineOutcome(Head(iter.reader), iter.widths,
                                  iter.separator_length, iter.flexible_width)
            /\ iter' = [iter EXCEPT !.reader = Tail(iter.reader)]
    /\ UNCHANGED <<file, widths, separator_length, flexible_width, has_header,
                   it_header, overflow_checks>>
    /\ UNCHANGED recordVars

Next ==
    \/ WithSeparatorLength
    \/ WithFlexibleWidth
    \/ WithHasHeader
    \/ Header
    \/ Records
    \/ IterNext

Spec == Init /\ [][Next]_vars

\* ------------------------------------------------ properties of FwfRecord
\* The cursor of the specified algorithm, counted in characters: 0 at the
\* first field; after a field with more characters remaining than its width
\* it is the field's end plus the separator, otherwise the end of the line.
RECURSIVE CharCursor(_, _, _, _)
CharCursor(ln, ws, sep, k) ==
    IF k = 1 THEN 0
    ELSE LET c == CharCursor(ln, ws, sep, k - 1)
         IN  IF Len(ln) - c > ws[k - 1] THEN c + ws[k - 1] + sep ELSE Len(ln)

\* Characters from the cursor of field k to the end of the line.
CharsRemaining(ln, ws, sep, k) ==
    LET c == CharCursor(ln, ws, sep, k) IN IF c >= Len(ln) THEN 0 ELSE Len(ln) - c

ShortAt(ln, ws, sep, k) == CharsRemaining(ln, ws, sep, k) < ws[k]

FirstShort(ln, ws, sep, k) ==
    /\ k \in 1..Len(ws)
    /\ ShortAt(ln, ws, sep, k)
    /\ \A j \in 1..(k - 1) : ~ShortAt(ln, ws, sep, j)

\* The byte index of character position c (positions past the end: the end).
ByteOf(ln, c) == IF c >= Len(ln) THEN StrLen(ln) ELSE CharOffset(ln, c + 1)

RECURSIVE SumWidths(_)
SumWidths(ws) == IF ws = <<>> THEN 0 ELSE Head(ws) + SumWidths(Tail(ws))

ExactLength ==
    /\ widths # <<>>
    /\ \A k \in 1..Len(widths) : widths[k] > 0
    /\ Len(line) = SumWidths(widths) + sep_len * (Len(widths) - 1)

\* C1: with flexible_width = false, a line of exactly sum(widths) +
\* separator_length * (len(widths) - 1) characters parses, and field i has
\* exactly widths[i] characters.
C1_ExactLengthParses ==
    (pc = "built" /\ ~flexible_widths /\ ExactLength)
    => /\ result.tag = "Ok"
       /\ Len(result.ranges) = Len(widths)
       /\ \A k \in 1..Len(widths) :
            /\ Get(result, k - 1).some
            /\ Len(Get(result, k - 1).text) = widths[k]

\* C2: every record try_new returns has one range per width, the ranges are
\* ordered and do not overlap, and every bound is a character boundary inside
\* the line.
C2_RangesWellFormed ==
    (pc = "built" /\ result.tag = "Ok")
    => /\ Len(result.ranges) = Len(widths)
       /\ \A k \in 1..Len(result.ranges) :
            LET r == result.ranges[k]
            IN  /\ r.start <= r.end
                /\ r.end <= StrLen(line)
                /\ IsCharBoundary(line, r.start)
                /\ IsCharBoundary(line, r.end)
                /\ k < Len(result.ranges) => r.end <= result.ranges[k + 1].start

\* C3: with flexible_width = true and a non-empty line, the first field short
\* of characters gets the range from the cursor to the end of the line, every
\* later field the empty range at the end, and the call returns Ok.
C3_FlexibleRemainder ==
    \A i \in 1..Len(widths) :
      (pc = "built" /\ flexible_widths /\ line # <<>>
         /\ FirstShort(line, widths, sep_len, i))
      => /\ result.tag = "Ok"
         /\ Len(result.ranges) = Len(widths)
         /\ result.ranges[i] =
              Rng(ByteOf(line, CharCursor(line, widths, sep_len, i)), StrLen(line))
         /\ \A j \in (i + 1)..Len(widths) :
              result.ranges[j] = Rng(StrLen(line), StrLen(line))

\* C4: with flexible_width = false and a non-empty line, the first field short
\* of characters gives Err(WidthMismatch(p, widths[i])), p the character
\* position of the cursor at that field.
C4_StrictMismatch ==
    \A i \in 1..Len(widths) :
      (pc = "built" /\ ~flexible_widths /\ line # <<>>
         /\ FirstShort(line, widths, sep_len, i))
      => result = WidthMismatch(CharCursor(line, widths, sep_len, i), widths[i])

\* C5: a zero-length line gives Err(EmptyLine) whatever the widths, the
\* separator length and the width policy are.
C5_EmptyLine ==
    (pc = "built" /\ line = <<>>) => result = EmptyLine

C5_Witness ==
    /\ pc = "built" /\ line = <<>> /\ widths = <<>> /\ flexible_widths
    /\ result = EmptyLine

\* C6: get(i) is None exactly when i >= len(widths); for a smaller index it
\* is the slice of the line at ranges[i].
C6_GetInRange ==
    (pc = "built" /\ result.tag = "Ok" /\ index >= 0)
    => /\ got.some <=> index < Len(widths)
       /\ index < Len(widths)
            => got.text = Slice(line, result.ranges[index + 1].start,
                                result.ranges[index + 1].end)

\* C9: try_new never panics: it returns Ok or Err for every input.
C9_NoPanic ==
    pc = "built" => result.tag \in {"Ok", "Err"}

\* The line has more characters than the declared fields and the separators
\* between them take.
OverLong ==
    /\ widths # <<>>
    /\ Len(line) > SumWidths(widths) + sep_len * (Len(widths) - 1)

\* C11 as claimed: with flexible_width = false, a line longer than the
\* declared widths consume gives Err(WidthMismatch) at the position where the
\* declared fields end.
C11_OverLongRejected ==
    (pc = "built" /\ ~flexible_widths /\ OverLong)
    => /\ result.tag = "Err"
       /\ result.kind = "WidthMismatch"
       /\ result.pos = SumWidths(widths) + sep_len * (Len(widths) - 1)

\* C11 as amended: with flexible_width = false, a line longer than the
\* declared widths consume is never answered with an error; a record returned
\* for it has one range per width and ends before the end of the line, and
\* with separator_length = 0 a record is returned, field i of it holding
\* exactly widths[i] characters.
C11_OverLongTruncated ==
    (pc = "built" /\ ~flexible_widths /\ OverLong)
    => /\ result.tag # "Err"
       /\ result.tag = "Ok"
            => /\ Len(result.ranges) = Len(widths)
               /\ result.ranges[Len(widths)].end < StrLen(line)
       /\ sep_len = 0
            => /\ result.tag = "Ok"
               /\ \A k \in 1..Len(widths) :
                    /\ Get(result, k - 1).some
                    /\ Len(Get(result, k - 1).text) = widths[k]

C11_Witness ==
    /\ pc = "built" /\ ~flexible_widths /\ OverLong
    /\ sep_len = 0
    /\ widths = <<1, 1>>
    /\ Len(line) = 3
    /\ result.tag = "Ok"
    /\ result.ranges[2].end < StrLen(line)

\* -------------------------------------------- properties of FwfFileReader
\* The file opens, has a first line, and every line of it is read.
Readable ==
    /\ file.exists
    /\ file.lines # <<>>
    /\ \A k \in 1..Len(file.lines) : file.lines[k].ok

\* try_new on line k of the file with the configuration the iterator holds.
IterParse(k) ==
    TryNew(file.lines[k].text, iter.widths, iter.separator_length,
           iter.flexible_width, overflow_checks)

\* C7: with has_header = true, header() gives the record parsed from L1 and
\* the records() sequence is made of L2..Ln only; with has_header = false,
\* header() gives Ok(None) and the first element of records() is L1 parsed.
C7_HeaderSplit ==
    /\ (op = "header" /\ ~has_header) => ret = Plain("OkNone")
    /\ (op = "header" /\ has_header /\ Readable)
         => ret = TryNew(file.lines[1].text, widths, separator_length,
                         flexible_width, overflow_checks)
    /\ (op = "next" /\ it_header /\ Readable)
         => ret = IF calls + 1 <= Len(file.lines) THEN IterParse(calls + 1)
                  ELSE Plain("None")
    /\ (op = "next" /\ ~it_header /\ Readable /\ calls = 1)
         => ret = IterParse(1)

C7_Witness ==
    /\ op = "next" /\ it_header /\ calls = 1 /\ Readable
    /\ Len(file.lines) = 2
    /\ file.lines[1] # file.lines[2]
    /\ ret.tag = "Ok"
    /\ ret.line = file.lines[2].text

\* The lines M1..Mk the iterator's source held when records() built it.
IterSource == IF it_header /\ file.lines # <<>> THEN Tail(file.lines) ELSE file.lines

AllLinesRead == \A k \in 1..Len(file.lines) : file.lines[k].ok

\* C8: the j-th next() returns Some(try_new(Mj, ..)) for every j up to k,
\* whatever earlier calls returned, and the call after the last line returns
\* None.
C8_EveryLineYielded ==
    (op = "next" /\ AllLinesRead)
    => ret = IF calls <= Len(IterSource)
             THEN TryNew(IterSource[calls].text, iter.widths,
                         iter.separator_length, iter.flexible_width,
                         overflow_checks)
             ELSE Plain("None")

C8_Witness ==
    /\ op = "next" /\ AllLinesRead /\ calls = 2
    /\ Len(IterSource) = 2
    /\ TryNew(IterSource[1].text, iter.widths, iter.separator_length,
              iter.flexible_width, overflow_checks).tag = "Err"
    /\ ret.tag = "Ok"
    /\ ret.line = IterSource[2].text

\* The first line of the file fails: it cannot be read, or try_new rejects it.
FirstLineFails ==
    /\ file.exists
    /\ file.lines # <<>>
    /\ LineOutcome(file.lines[1], widths, separator_length,
                   flexible_width).tag = "Err"

\* C10 as claimed: with has_header = true, records() returns Err when the
\* first line fails.
C10_RecordsReportsHeaderFailure ==
    (op = "records" /\ has_header /\ FirstLineFails) => ret.tag = "Err"

\* C10 as amended: records() returns Err only when the file cannot be opened;
\* with has_header = true a failing first line is discarded unparsed and
\* records() still returns the iterator over the lines after it; the failure
\* is what header() returns.
C10_HeaderFailureFromHeaderOnly ==
    /\ op = "records" => (ret.tag = "Err" <=> ~file.exists)
    /\ (op = "records" /\ has_header /\ FirstLineFails)
         => /\ ret = Plain("OkIter")
            /\ iter.live
            /\ iter.reader = Tail(file.lines)
    /\ (op = "header" /\ has_header /\ FirstLineFails)
         => /\ ret.tag = "Err"
            /\ ret = LineOutcome(file.lines[1], widths, separator_length,
                                 flexible_width)

C10_Witness ==
    /\ op = "records" /\ has_header /\ FirstLineFails
    /\ file.lines[1] = FileLine(<<>>)
    /\ ret = Plain("OkIter")

====
